---------------------------- MODULE Spec2Model ----------------------------
(***************************************************************************)
(* State-machine model of alinify::stitching::StripStitcher                *)
(* (src/src/stitching/strip_stitcher.cpp, strip_stitcher.h, types.h).      *)
(*                                                                         *)
(* An Image<byte_t> is a record [width, height, data] whose data is the    *)
(* row-major std::vector of samples (index y*width + x, here 1-based).     *)
(* Only single-channel 8-bit images are modelled: the stitcher wraps every *)
(* image as CV_8UC1 and indexes channel 0.  A ScanStrip is a record        *)
(* [image]; strip_id, physical_position and is_left_to_right are only      *)
(* logged by the stitcher and are left out.                                *)
(*                                                                         *)
(* cv::phaseCorrelate and cv::matchTemplate are library calls: what they   *)
(* compute on a non-empty band is an input of the model (an estimate       *)
(* drawn from Estimates).  Shifts are in half pixels and correlations in   *)
(* percent, so that the code's conversions (static_cast<int>, >=) are      *)
(* modelled by what they do.  Float arithmetic of the blend is modelled    *)
(* bit-exactly as IEEE-754 binary32 with round-to-nearest-even.            *)
(***************************************************************************)
EXTENDS Integers, Sequences, FiniteSets

(* ----------------------------- bounds ---------------------------------- *)

\* Strips offered to addStrip are 1..MaxWidth samples wide.
MaxWidth == 2
\* Strips offered to addStrip are 1..MaxHeight rows high.
MaxHeight == 3
\* initialize() is called with overlap_pixels in -1..MaxOverlap.
MaxOverlap == 3
\* At most MaxStrips strips are accepted between two reset() calls.
MaxStrips == 3
\* Images given to the warper are 1..MaxImage samples wide and high.
MaxImage == 3
\* CudaWarper::initialize is called with tile_width, tile_height up to
\* MaxTile.
MaxTile == 2
\* CudaWarper::initialize is called with tile_overlap in -1..MaxTileOverlap.
MaxTileOverlap == 2
\* A libtorch error is raised at one of the first MaxFaultTile tiles.
MaxFaultTile == 2
\* strips the frame grabber delivers in a run
MaxScanned == 3

(* ------------------------- program constants --------------------------- *)

\* ScanningParams(): overlap_pixels(100)
DefaultOverlap == 100
\* StripStitcher(): min_correlation_(0.7), in percent
DefaultMinCorrelation == 70
\* The float mantissa: 24 significant bits (binary32)
MantissaBits == 24
\* Fixed-point unit of the float model: 2^-FracBits.  Every binary32 value
\* the blend computes for overlap_pixels <= 32 is a multiple of it.
FracBits == MantissaBits + 4
\* byte_t = uint8_t: samples are 0..255
ByteRange == 256
\* GPUConfig(): tile_width(4096), tile_height(4096)
DefaultTileSize == 4096
\* GPUConfig(): tile_overlap(128)
DefaultTileOverlap == 128
\* GPUConfig(): max_vram_bytes(15 GiB), in MiB
DefaultMaxVramMiB == 15360
\* Bytes in one MiB: size_t values are kept as [mib, bytes] pairs, the
\* 64-bit quantity mib * 2^20 + bytes.
MiB == 1048576
\* sizeof(float), the cost of one sample of a tensor
SizeofFloat == 4
\* warpImage: "Need 3x for input, output, grid"
TensorCopies == 3

(* ------------------------------ inputs --------------------------------- *)

\* Sample at column 0 of the last row of the strips offered.
PixelFills == {13}
\* Horizontal shifts (half pixels) cv::phaseCorrelate may report.
ShiftsX == {-2, 0, 3}
\* Vertical shifts (half pixels) cv::phaseCorrelate may report.
ShiftsY == {0}
\* Peak values (percent) cv::matchTemplate may report.
MaxVals == {60, 90}
\* Values given to setCorrelationThreshold (percent).
Thresholds == {70, 95}

Estimates == [shift_x : ShiftsX, shift_y : ShiftsY, max_val : MaxVals]

\* Displacements <<dx, dy>> (half pixels) of the deformation fields given
\* to the warper; a field displaces every pixel by the same amount.
Displacements == {<<0, 0>>, <<3, 0>>, <<-3, 0>>, <<0, 3>>}
\* max_vram_bytes given to CudaWarper::initialize: 40 bytes.
VramBudgets == {[mib |-> 0, bytes |-> 40]}
\* Free device memory cudaMemGetInfo may report: none, 8 GiB.
FreeBytes == {[mib |-> 0, bytes |-> 0], [mib |-> 8192, bytes |-> 0]}
\* Modes given to setInterpolationMode.
InterpolationModes == {"nearest", "bilinear"}
\* What a c10::Error raised inside a warp call reports: the device is out
\* of memory, or anything else (a failed argument check, a CUDA error).
TorchErrors == {"out_of_memory", "other_error"}

Min(a, b) == IF a <= b THEN a ELSE b
Max(a, b) == IF a >= b THEN a ELSE b

(* ------------------------------ types.h -------------------------------- *)

\* Image(): width(0), height(0), no data
EmptyImage == [width |-> 0, height |-> 0, data |-> << >>]

\* Image::at(x, y): data[(y*width + x)*channels + c], channels = 1, c = 0
at(img, x, y) == img.data[y * img.width + x + 1]

\* A strip the acquisition side can deliver: a gradient image whose last
\* row starts at fill, sample (x, y) = fill + x + 2*(h - 1 - y) (mod 256).
StripImage(w, h, fill) ==
    [width |-> w, height |-> h,
     data |-> [k \in 1..(w * h) |->
                 (fill + ((k - 1) % w) + 2 * (h - 1 - ((k - 1) \div w)))
                     % ByteRange]]

ScanStrips ==
    {[image |-> StripImage(w, h, f)] :
        w \in 1..MaxWidth, h \in 1..MaxHeight, f \in PixelFills}

NoStrip == [image |-> EmptyImage]

(* ------------------- binary32 arithmetic of the blend ------------------ *)
(* A non-negative binary32 value v < 2^24 is the record [i, f] with        *)
(* v = i + f / 2^FracBits and 0 <= f < 2^FracBits.                         *)

RECURSIVE Pow2(_)
Pow2(n) == IF n <= 0 THEN 1 ELSE 2 * Pow2(n - 1)

RECURSIVE BitLen(_)
BitLen(n) == IF n <= 0 THEN 0 ELSE 1 + BitLen(n \div 2)

\* n / 2^d rounded to the nearest integer, ties to even.
RoundShift(n, d) ==
    IF d <= 0 THEN n
    ELSE LET q == n \div Pow2(d)
             r == n % Pow2(d)
             h == Pow2(d - 1)
         IN IF r > h \/ (r = h /\ q % 2 = 1) THEN q + 1 ELSE q

\* Round an exact value to MantissaBits significant bits.
F32Round(i, f) ==
    LET d  == IF i > 0 THEN BitLen(i) + FracBits - MantissaBits
                       ELSE BitLen(f) - MantissaBits
        f2 == IF d <= 0 THEN f ELSE RoundShift(f, d) * Pow2(d)
    IN IF f2 = Pow2(FracBits) THEN [i |-> i + 1, f |-> 0]
                              ELSE [i |-> i, f |-> f2]

RECURSIVE DivExp(_, _, _)
\* The least j >= 1 with y * 2^j >= bh  (y/bh lies in [2^-j, 2^(1-j))).
DivExp(y, bh, j) == IF y * Pow2(j) >= bh THEN j ELSE DivExp(y, bh, j + 1)

\* static_cast<float>(y) / blend_height for 0 <= y < blend_height
F32Div(y, bh) ==
    IF y = 0 THEN [i |-> 0, f |-> 0]
    ELSE LET j == DivExp(y, bh, 1)
             p == y * Pow2(MantissaBits - 1 + j)
             q == p \div bh
             r == p % bh
             m == IF 2 * r > bh \/ (2 * r = bh /\ q % 2 = 1) THEN q + 1 ELSE q
         IN [i |-> 0, f |-> m * Pow2(FracBits - MantissaBits + 1 - j)]

F32One == [i |-> 1, f |-> 0]

\* 1.0f - alpha for 0 <= alpha <= 1
F32OneMinus(a) ==
    IF a.i >= 1 THEN [i |-> 0, f |-> 0]
    ELSE IF a.f = 0 THEN F32One
    ELSE F32Round(0, Pow2(FracBits) - a.f)

\* a * s for a sample s (the byte converts to float exactly), 0 <= a <= 1
F32MulByte(a, s) ==
    LET half == Pow2(FracBits \div 2)
        fh   == a.f \div half
        fl   == a.f % half
        lo   == fl * s
        hi   == fh * s
        t    == hi + (lo \div half)
    IN F32Round(a.i * s + (t \div half), (t % half) * half + (lo % half))

F32Add(a, b) ==
    LET f == a.f + b.f
    IN F32Round(a.i + b.i + (f \div Pow2(FracBits)), f % Pow2(FracBits))

\* static_cast<byte_t>(float): truncation toward zero
F32ToByte(a) == a.i % ByteRange

\* static_cast<int>(double) of a shift given in half pixels
TruncToInt(h) == IF h >= 0 THEN h \div 2 ELSE -((-h) \div 2)

(* --------------------------- StripStitcher ----------------------------- *)

VARIABLES
    initialized_,       \* bool initialized_
    params_,            \* ScanningParams params_ (overlap_pixels)
    min_correlation_,   \* double min_correlation_, in percent
    blending_enabled_,  \* bool blending_enabled_
    strips_,            \* std::vector<ScanStrip> strips_
    stitched_image_,    \* Image<byte_t> stitched_image_
    last_alignment_,    \* AlignmentStats last_alignment_
    current_height_,    \* int current_height_
    last_call           \* the last public call: its name, argument, result

vars == <<initialized_, params_, min_correlation_, blending_enabled_, strips_,
          stitched_image_, last_alignment_, current_height_, last_call>>

\* The values an AlignmentStats member holds when nothing has written it
\* (the struct has no initialisers): any value.
IndeterminateStats ==
    [offset_x : ShiftsX, offset_y : ShiftsY, correlation : MaxVals,
     success : BOOLEAN]

\* AlignmentStats{}: value-initialised
ZeroStats == [offset_x |-> 0, offset_y |-> 0, correlation |-> 0, success |-> FALSE]

\* The band height phaseCorrelation cuts from both images.
overlap_height(img1, img2, overlap_pixels) ==
    Min(overlap_pixels, Min(img1.height, img2.height))

\* phaseCorrelation(img1, img2).  est is what the OpenCV calls compute on the
\* two bands.  An empty or negative band (overlap_height <= 0) gives OpenCV
\* nothing to correlate: the cv::Exception branch is taken and offset_x,
\* offset_y and correlation stay unwritten (here: the values of est, i.e.
\* any values).
phaseCorrelation(img1, img2, est, overlap_pixels, min_correlation) ==
    IF overlap_height(img1, img2, overlap_pixels) <= 0
    THEN [offset_x |-> est.shift_x, offset_y |-> est.shift_y,
          correlation |-> est.max_val, success |-> FALSE]
    ELSE [offset_x |-> est.shift_x, offset_y |-> est.shift_y,
          correlation |-> est.max_val,
          success |-> (est.max_val >= min_correlation)]

\* alignStrips(prev, current) == phaseCorrelation(prev, current)
alignStrips(prev, current, est, overlap_pixels, min_correlation) ==
    phaseCorrelation(prev, current, est, overlap_pixels, min_correlation)

\* The blended sample of strip row y: alpha * source_val + (1 - alpha) *
\* target_val in float, truncated to byte_t.
blendSample(y, blend_height, source_val, target_val) ==
    LET alpha == IF y < blend_height THEN F32Div(y, blend_height) ELSE F32One
    IN F32ToByte(F32Add(F32MulByte(alpha, source_val),
                        F32MulByte(F32OneMinus(alpha), target_val)))

\* blendOverlapRegion(target, source, offset_x, offset_y): every source
\* sample (x, y) whose target (x + offset_x, y + offset_y) is inside the
\* target is blended into it; each target sample is written at most once.
blendOverlapRegion(target, source, offset_x, offset_y, blend_height) ==
    [target EXCEPT !.data =
        [k \in 1..Len(target.data) |->
            LET tx == (k - 1) % target.width
                ty == (k - 1) \div target.width
                x  == tx - offset_x
                y  == ty - offset_y
            IN IF y >= 0 /\ y < source.height /\ x >= 0 /\ x < source.width
               THEN blendSample(y, blend_height, at(source, x, y), target.data[k])
               ELSE target.data[k]]]

\* The rows of the strip whose memcpy covers 0-based offset o of the target
\* buffer: row y is copied to offsets dst_y*width .. dst_y*width+copy_width-1.
copyRows(target, source, insert_y, o) ==
    {y \in 0..(source.height - 1) :
        /\ insert_y + y >= 0
        /\ insert_y + y < target.height
        /\ (insert_y + y) * target.width <= o
        /\ o < (insert_y + y) * target.width + source.width}

SetMax(S) == CHOOSE m \in S : \A n \in S : n <= m

\* The "simple copy" loop: one memcpy of copy_width samples per strip row,
\* rows in increasing order (a later row overwrites what an earlier one
\* spilled).  Writes past the end of the buffer are not part of the image.
copyStrip(target, source, insert_y) ==
    [target EXCEPT !.data =
        [k \in 1..Len(target.data) |->
            LET ys == copyRows(target, source, insert_y, k - 1)
            IN IF ys = {} THEN target.data[k]
               ELSE LET y == SetMax(ys)
                    IN source.data[y * source.width
                                   + (k - 1 - (insert_y + y) * target.width) + 1]]]

\* Whether the copy loop writes past the end of the target buffer.
copyOverruns(target, source, insert_y) ==
    \E y \in 0..(source.height - 1) :
        /\ insert_y + y >= 0
        /\ insert_y + y < target.height
        /\ (insert_y + y) * target.width + source.width > Len(target.data)

\* Mutant of expandStitched: the Image constructor's width and height
\* arguments swapped.
expandStitched_swapped(img, new_height) ==
    IF new_height > img.height
    THEN [width |-> new_height, height |-> img.width,
          data |-> [k \in 1..(img.width * new_height) |->
                      IF k <= Len(img.data) THEN img.data[k] ELSE 0]]
    ELSE img

\* "Expand stitched image if needed": a zeroed image of the same width and
\* new_height rows, the old samples memcpy'd to its start.
expandStitched(img, new_height) ==
    IF new_height > img.height
    THEN [width |-> img.width, height |-> new_height,
          data |-> [k \in 1..(img.width * new_height) |->
                      IF k <= Len(img.data) THEN img.data[k] ELSE 0]]
    ELSE img

\* Mutant of addStripFirst: the strip is recorded but its image is not
\* copied into stitched_image_.
addStripFirst_noCopy(strip) ==
    [stitched_image_ |-> EmptyImage,
     current_height_ |-> strip.image.height,
     strips_ |-> << strip >>]

\* addStrip, first strip: the strip becomes the stitched image.
addStripFirst(strip) ==
    [stitched_image_ |-> strip.image,
     current_height_ |-> strip.image.height,
     strips_ |-> << strip >>]

\* Mutant of addStripFailed: the strip is pushed to strips_ before the
\* alignment result is tested.
addStripFailed_pushed(image, height, strips, strip) ==
    [stitched_image_ |-> image, current_height_ |-> height,
     strips_ |-> Append(strips, strip)]

\* addStrip, alignment failed: return before anything is written.
addStripFailed(image, height, strips, strip) ==
    [stitched_image_ |-> image, current_height_ |-> height, strips_ |-> strips]

\* addStrip, alignment succeeded: expand, blend or copy, record.
addStripFused(image, height, strips, strip, stats, overlap_pixels, blending) ==
    LET new_height == height + strip.image.height - overlap_pixels
        expanded   == expandStitched(image, new_height)
        insert_y   == height - overlap_pixels
    IN [stitched_image_ |->
            IF blending /\ overlap_pixels > 0
            THEN blendOverlapRegion(expanded, strip.image,
                                    TruncToInt(stats.offset_x), insert_y,
                                    overlap_pixels)
            ELSE copyStrip(expanded, strip.image, insert_y),
        current_height_ |-> new_height,
        strips_ |-> Append(strips, strip)]

\* Mutant of resetState: strips_.clear() is missing.
resetState_keepsStrips ==
    [strips_ |-> strips_, stitched_image_ |-> EmptyImage, current_height_ |-> 0,
     last_alignment_ |-> ZeroStats]

\* reset(): the members it assigns.
resetState ==
    [strips_ |-> << >>, stitched_image_ |-> EmptyImage, current_height_ |-> 0,
     last_alignment_ |-> ZeroStats]

\* getStitchedImage()
getStitchedImage == stitched_image_

\* getLastAlignmentStats()
getLastAlignmentStats == last_alignment_

\* What last_call records: the call, its status code, the width of the strip
\* passed (0 when the call takes none), whether alignStrips ran, whether a
\* memcpy of the copy loop ran past the end of the buffer, and how many
\* strips a reset() discarded.
Call(op, status, strip, aligned, overrun) ==
    [op |-> op, status |-> status, strip_width |-> strip.image.width,
     aligned |-> aligned, overrun |-> overrun, dropped |-> 0]

(* ------------------------- CudaWarper: state --------------------------- *)

VARIABLES
    config_,              \* GPUConfig config_
    warper_initialized_,  \* bool CudaWarper::initialized_
    interpolation_mode_,  \* std::string interpolation_mode_
    design_image,         \* the caller's design image, loaded once
    output,               \* the caller's Image<byte_t>& output
    warp_call             \* the last CudaWarper call: name, arguments, result

wvars == <<config_, warper_initialized_, interpolation_mode_, design_image,
           output, warp_call>>

\* A size_t of mib * 2^20 + bytes bytes.
SizeT(mib, bytes) == [mib |-> mib, bytes |-> bytes]

\* GPUConfig()
DefaultConfig ==
    [tile_width |-> DefaultTileSize, tile_height |-> DefaultTileSize,
     tile_overlap |-> DefaultTileOverlap,
     max_vram_bytes |-> SizeT(DefaultMaxVramMiB, 0)]

\* DeformationField(): width(0), height(0)
NoField == [width |-> 0, height |-> 0, dx |-> 0, dy |-> 0]

\* The record of a CudaWarper call: the call, the status it returned, the
\* path it took ("direct", "tiled" or "none"), its deformation field, the
\* tiles generateTiles planned, how many of them were processed to the end,
\* the libtorch error that ended it ("none" if there was none), and the
\* interpolation_mode arguments of the grid_sampler calls that returned.
WarpCall(op, status) ==
    [op |-> op, status |-> status, path |-> "none", field |-> NoField,
     tiles |-> << >>, processed |-> 0, error |-> "none", kernels |-> {}]

\* CudaWarper(): initialized_(false), interpolation_mode_("bilinear"); no
\* design image is loaded.
WarperInit ==
    /\ config_ = DefaultConfig
    /\ warper_initialized_ = FALSE
    /\ interpolation_mode_ = "bilinear"
    /\ design_image = EmptyImage
    /\ output = EmptyImage
    /\ warp_call = WarpCall("CudaWarper", "SUCCESS")

(* --------------------------- pipeline: state --------------------------- *)

VARIABLES
    current_strip_id_,  \* int GidelCamera::current_strip_id_
    stats_,             \* GidelCamera::Statistics stats_ (frames_received)
    grabbing,           \* the frame grabber runs (Grab() .. StopAcquisition())
    is_acquiring_,      \* std::atomic<bool> is_acquiring_
    should_stop_,       \* std::atomic<bool> should_stop_
    strip_queue_,       \* std::queue<ScanStrip> GidelCamera::strip_queue_
    grab_pc,            \* the grabber's callback thread in processBuffer
    cam_pc,             \* GidelCamera::processingThread
    cam_strip,          \* its local ScanStrip strip
    g_running,          \* std::atomic<bool> g_running
    g_strip_queue,      \* std::queue<ScanStrip> g_strip_queue
    g_stats,            \* PipelineStats g_stats (the two counters)
    proc_pc,            \* processingThread of main_pipeline.cpp
    proc_strip,         \* its local ScanStrip strip
    main_pc,            \* main()
    printer,            \* PrinterInterface: initialized_, status_
    cycle,              \* what the consumer did with the strip it dequeued
    stitch_order        \* the strip ids passed to addStrip, in call order

pvars == <<current_strip_id_, stats_, grabbing, is_acquiring_, should_stop_,
           strip_queue_, grab_pc, cam_pc, cam_strip, g_running,
           g_strip_queue, g_stats, proc_pc, proc_strip, main_pc, printer,
           cycle, stitch_order>>

\* ScanStrip(): strip_id(0), an empty image
DefaultStrip == [strip_id |-> 0, image |-> EmptyImage]

\* PrinterInterface(): initialized_(false), status_ = {}
ClosedPrinter ==
    [initialized_ |-> FALSE, connected |-> FALSE, printing |-> FALSE]

\* The width and height of an image.
Extent(img) == [width |-> img.width, height |-> img.height]

\* The record of one pass of the consumer's loop body: the strip it
\* dequeued, what addStrip, registerImages and warpImage returned ("none":
\* not called), what isReady() answered and the image given to sendImage,
\* the extents of the composite pulled by getStitchedImage and of the
\* moving image given to registerImages, and how many strips the consumer
\* has dequeued since g_running was cleared.
Cycle(strip) ==
    [strip_id |-> strip.strip_id, dequeued |-> FALSE, stitch |-> "none",
     registration |-> "none", warp |-> "none", ready |-> FALSE,
     sent |-> FALSE, image |-> EmptyImage,
     stitched |-> Extent(EmptyImage), moving |-> Extent(EmptyImage),
     after_stop |-> 0]

\* Before main() starts the threads: nothing runs, the queues are empty.
PipeIdle ==
    /\ current_strip_id_ = 0
    /\ stats_ = [frames_received |-> 0]
    /\ grabbing = FALSE
    /\ is_acquiring_ = FALSE
    /\ should_stop_ = FALSE
    /\ strip_queue_ = << >>
    /\ grab_pc = "idle"
    /\ cam_pc = "unstarted"
    /\ cam_strip = DefaultStrip
    /\ g_running = FALSE
    /\ g_strip_queue = << >>
    /\ g_stats = [strips_acquired |-> 0, strips_processed |-> 0]
    /\ proc_pc = "unstarted"
    /\ proc_strip = DefaultStrip
    /\ main_pc = "init"
    /\ printer = ClosedPrinter
    /\ cycle = Cycle(DefaultStrip)
    /\ stitch_order = << >>

Init ==
    /\ WarperInit
    /\ PipeIdle
    /\ initialized_ = FALSE
    /\ params_ = [overlap_pixels |-> DefaultOverlap]
    /\ min_correlation_ = DefaultMinCorrelation
    /\ blending_enabled_ = TRUE
    /\ strips_ = << >>
    /\ stitched_image_ = EmptyImage
    /\ last_alignment_ \in IndeterminateStats
    /\ current_height_ = 0
    /\ last_call = Call("StripStitcher", "SUCCESS", NoStrip, FALSE, FALSE)

\* initialize(params).  Configuration calls are made before the first strip
\* of a run, as main() does.
Initialize(overlap_pixels) ==
    /\ strips_ = << >>
    /\ params_' = [overlap_pixels |-> overlap_pixels]
    /\ initialized_' = TRUE
    /\ last_call' = Call("initialize", "SUCCESS", NoStrip, FALSE, FALSE)
    /\ UNCHANGED <<min_correlation_, blending_enabled_, strips_,
                   stitched_image_, last_alignment_, current_height_>>

SetCorrelationThreshold(threshold) ==
    /\ strips_ = << >>
    /\ min_correlation_' = threshold
    /\ last_call' = Call("setCorrelationThreshold", "SUCCESS", NoStrip, FALSE, FALSE)
    /\ UNCHANGED <<initialized_, params_, blending_enabled_, strips_,
                   stitched_image_, last_alignment_, current_height_>>

SetBlendingEnabled(enabled) ==
    /\ strips_ = << >>
    /\ blending_enabled_' = enabled
    /\ last_call' = Call("setBlendingEnabled", "SUCCESS", NoStrip, FALSE, FALSE)
    /\ UNCHANGED <<initialized_, params_, min_correlation_, strips_,
                   stitched_image_, last_alignment_, current_height_>>

AddStripUninitialized(strip) ==
    /\ ~initialized_
    /\ last_call' = Call("addStrip", "ERROR_INVALID_CONFIG", strip, FALSE, FALSE)
    /\ UNCHANGED <<initialized_, params_, min_correlation_, blending_enabled_,
                   strips_, stitched_image_, last_alignment_, current_height_>>

AddStripSeed(strip) ==
    /\ initialized_
    /\ strips_ = << >>
    /\ LET r == addStripFirst(strip)
       IN /\ stitched_image_' = r.stitched_image_
          /\ current_height_' = r.current_height_
          /\ strips_' = r.strips_
    /\ last_call' = Call("addStrip", "SUCCESS", strip, FALSE, FALSE)
    /\ UNCHANGED <<initialized_, params_, min_correlation_, blending_enabled_,
                   last_alignment_>>

AddStripAligned(strip, est) ==
    /\ initialized_
    /\ strips_ # << >>
    /\ LET prev_strip  == strips_[Len(strips_)]
           align_stats == alignStrips(prev_strip.image, strip.image, est,
                                      params_.overlap_pixels, min_correlation_)
           r == IF align_stats.success
                THEN addStripFused(stitched_image_, current_height_, strips_,
                                   strip, align_stats, params_.overlap_pixels,
                                   blending_enabled_)
                ELSE addStripFailed(stitched_image_, current_height_, strips_,
                                    strip)
           overrun ==
                /\ align_stats.success
                /\ ~(blending_enabled_ /\ params_.overlap_pixels > 0)
                /\ copyOverruns(
                      expandStitched(stitched_image_,
                          current_height_ + strip.image.height
                              - params_.overlap_pixels),
                      strip.image, current_height_ - params_.overlap_pixels)
       IN /\ align_stats.success => Len(strips_) < MaxStrips
          /\ last_alignment_' = align_stats
          /\ stitched_image_' = r.stitched_image_
          /\ current_height_' = r.current_height_
          /\ strips_' = r.strips_
          /\ last_call' = Call("addStrip",
                               IF align_stats.success THEN "SUCCESS"
                               ELSE "ERROR_STITCHING_FAILED",
                               strip, TRUE, overrun)
    /\ UNCHANGED <<initialized_, params_, min_correlation_, blending_enabled_>>

\* addStrip(strip)
AddStrip(strip) ==
    \/ AddStripUninitialized(strip)
    \/ AddStripSeed(strip)
    \/ \E est \in Estimates : AddStripAligned(strip, est)

\* reset()
Reset ==
    /\ strips_' = resetState.strips_
    /\ stitched_image_' = resetState.stitched_image_
    /\ current_height_' = resetState.current_height_
    /\ last_alignment_' = resetState.last_alignment_
    /\ last_call' = [Call("reset", "SUCCESS", NoStrip, FALSE, FALSE)
                        EXCEPT !.dropped = Len(strips_)]
    /\ UNCHANGED <<initialized_, params_, min_correlation_, blending_enabled_>>

\* The stitcher's calls; the warper is not called.
Next ==
    \/ (\E ov \in (-1)..MaxOverlap : Initialize(ov)) /\ UNCHANGED <<wvars, pvars>>
    \/ (\E t \in Thresholds : SetCorrelationThreshold(t)) /\ UNCHANGED <<wvars, pvars>>
    \/ (\E b \in BOOLEAN : SetBlendingEnabled(b)) /\ UNCHANGED <<wvars, pvars>>
    \/ (\E s \in ScanStrips : AddStrip(s)) /\ UNCHANGED <<wvars, pvars>>
    \/ Reset /\ UNCHANGED <<wvars, pvars>>

Spec == Init /\ [][Next]_<<vars, wvars, pvars>>

(* ----------------------- CudaWarper: tile plan ------------------------- *)

\* generateTiles, the inner loop: the tiles of the row at y from column x on.
\* for (x; x < width; x += tile_w - overlap)
RECURSIVE generateTiles_row(_, _, _, _, _)
generateTiles_row(config, x, y, width, height) ==
    IF x >= width THEN << >>
    ELSE << [x |-> x, y |-> y,
             width |-> Min(config.tile_width, width - x),
             height |-> Min(config.tile_height, height - y),
             overlap |-> config.tile_overlap] >>
         \o generateTiles_row(config,
                              x + (config.tile_width - config.tile_overlap),
                              y, width, height)

\* generateTiles, the outer loop: the rows of tiles from row y on.
\* for (y; y < height; y += tile_h - overlap)
RECURSIVE generateTiles_rows(_, _, _, _)
generateTiles_rows(config, y, width, height) ==
    IF y >= height THEN << >>
    ELSE generateTiles_row(config, 0, y, width, height)
         \o generateTiles_rows(config,
                               y + (config.tile_height - config.tile_overlap),
                               width, height)

\* Whether generateTiles(width, height) returns: a loop whose step
\* tile size - overlap is not positive never reaches its bound.
generateTiles_returns(config, width, height) ==
    \/ height <= 0
    \/ /\ config.tile_height - config.tile_overlap > 0
       /\ width <= 0 \/ config.tile_width - config.tile_overlap > 0

\* generateTiles with tiles.insert(tiles.begin(), tile) for push_back: the
\* plan comes out last tile first.
generateTiles_prepend(config, width, height) ==
    LET tiles == generateTiles_rows(config, 0, width, height)
    IN [i \in 1..Len(tiles) |-> tiles[Len(tiles) + 1 - i]]

\* generateTiles(width, height), when it returns
generateTiles(config, width, height) ==
    generateTiles_rows(config, 0, width, height)

(* ------------------------ CudaWarper: sampling ------------------------- *)
(* Coordinates are exact fractions [n, d] with d > 0.  A tensor element is  *)
(* the record [n, d, exact]: its value is n / (255 * d), and exact says     *)
(* that the binary32 operations that produced it did not round.             *)

Frac(n, d) == [n |-> n, d |-> d]

FracAdd(a, b) == Frac(a.n * b.d + b.n * a.d, a.d * b.d)

\* a * k / m for integers k and m > 0
FracScale(a, k, m) == Frac(a.n * k, a.d * m)

\* std::floor
FracFloor(a) == a.n \div a.d

\* std::nearbyint: to the nearest integer, ties to the even one
FracNearbyint(a) ==
    LET q == FracFloor(a)
        r == a.n - q * a.d
    IN IF 2 * r > a.d \/ (2 * r = a.d /\ q % 2 = 1) THEN q + 1 ELSE q

\* image.at(x, y, c) / 255.0f for a sample of 0 or of 8..255
F32DivByte(b) ==
    IF b = 0 THEN [i |-> 0, f |-> 0]
    ELSE IF b = ByteRange - 1 THEN F32One
    ELSE LET bh == ByteRange - 1
             j  == DivExp(b, bh, 1)
             p1 == b * Pow2(j + 11)
             p2 == (p1 % bh) * Pow2(MantissaBits - 12)
             q  == (p1 \div bh) * Pow2(MantissaBits - 12) + (p2 \div bh)
             m  == IF 2 * (p2 % bh) > bh THEN q + 1 ELSE q
         IN [i |-> 0, f |-> m * Pow2(FracBits - MantissaBits + 1 - j)]

\* imageToTensor: the element of the tensor for the sample b
imageToTensor(b) == [n |-> b, d |-> 1, exact |-> TRUE]

\* A sample b taken through imageToTensor and tensorToImage unchanged:
\* static_cast<byte_t>((b / 255.0f) * 255.0f), for every sample of 0 or of
\* 8..255.
byteThroughTensor ==
    [b \in {0} \cup 8..(ByteRange - 1) |->
        F32ToByte(F32MulByte(F32DivByte(b), ByteRange - 1))]

\* tensorToImage: static_cast<byte_t>(std::clamp(val * 255.0f, 0, 255)).
\* A copied sample goes through the binary32 division and multiplication;
\* a weighted mean is truncated, and one that is an integer and was rounded
\* on the way comes out as that integer or (round_down = 1) one below it.
tensorToImage(v, round_down) ==
    IF v.d = 1 THEN byteThroughTensor[v.n]
    ELSE IF v.n % v.d = 0 /\ ~v.exact THEN (v.n \div v.d) - round_down
    ELSE v.n \div v.d

\* torch::linspace(-1, 1, steps)[i]
linspace(i, steps) ==
    IF steps = 1 THEN Frac(-1, 1)
    ELSE Frac(2 * i - (steps - 1), steps - 1)

\* createSamplingGrid(height, width, deformation) at element (x, y): the
\* base grid plus the displacement divided by width / 2.0 and height / 2.0.
\* Displacements are in half pixels.
createSamplingGrid(height, width, deformation, x, y) ==
    [x |-> FracAdd(linspace(x, width), Frac(deformation.dx, width)),
     y |-> FracAdd(linspace(y, height), Frac(deformation.dy, height))]

\* grid_sampler_unnormalize(coord, size, align_corners)
grid_sampler_unnormalize(coord, size, align_corners) ==
    IF align_corners
    THEN FracScale(FracAdd(coord, Frac(1, 1)), size - 1, 2)
    ELSE FracScale(FracAdd(FracScale(FracAdd(coord, Frac(1, 1)), size, 1),
                           Frac(-1, 1)), 1, 2)

\* The sample of img at (ix, iy) under zeros padding.
within_bounds_2d(img, ix, iy) ==
    IF ix >= 0 /\ ix < img.width /\ iy >= 0 /\ iy < img.height
    THEN at(img, ix, iy) ELSE 0

\* Whether n / d is a binary fraction (binary32 holds it exactly).
Dyadic(n, d) == \E k \in 0..8 : (n * Pow2(k)) % d = 0

\* torch::grid_sampler(input, grid, interpolation_mode, 0, align_corners) at
\* one grid element, zeros padding.  ATen numbers its kernels
\* GridSamplerInterpolation {Bilinear = 0, Nearest = 1}.
grid_sampler(input, grid, interpolation_mode, align_corners) ==
    LET ix == grid_sampler_unnormalize(grid.x, input.width, align_corners)
        iy == grid_sampler_unnormalize(grid.y, input.height, align_corners)
    IN IF interpolation_mode = 1
       THEN imageToTensor(within_bounds_2d(input, FracNearbyint(ix),
                                           FracNearbyint(iy)))
       ELSE LET x_w == FracFloor(ix)
                y_n == FracFloor(iy)
                e   == ix.n - x_w * ix.d      \* weight of the east column
                w   == ix.d - e               \* over ix.d
                s_  == iy.n - y_n * iy.d      \* weight of the south row
                n   == iy.d - s_              \* over iy.d
                nw  == within_bounds_2d(input, x_w, y_n) * w * n
                ne  == within_bounds_2d(input, x_w + 1, y_n) * e * n
                sw  == within_bounds_2d(input, x_w, y_n + 1) * w * s_
                se  == within_bounds_2d(input, x_w + 1, y_n + 1) * e * s_
                terms == {t \in {<<1, nw, w * n>>, <<2, ne, e * n>>,
                                 <<3, sw, w * s_>>, <<4, se, e * s_>>} :
                            t[2] # 0}
            IN IF e = 0 /\ s_ = 0
               THEN imageToTensor(within_bounds_2d(input, x_w, y_n))
               ELSE [n |-> nw + ne + sw + se, d |-> ix.d * iy.d,
                     exact |-> /\ Cardinality(terms) <= 1
                               /\ \A t \in terms :
                                     Dyadic(t[3], ix.d * iy.d)]

\* warpImage, the direct path: the whole image is sampled on the grid of
\* the whole field.  interpolation_mode_ "nearest" passes kernel 0 and
\* align_corners = false, any other mode kernel 1 and align_corners = true.
warpDirect_kernel(mode) == IF mode = "nearest" THEN 0 ELSE 1
warpDirect_align(mode) == mode # "nearest"

warpDirect(input, deformation, mode, round_down) ==
    LET sample(x, y) ==
            tensorToImage(
                grid_sampler(input,
                             createSamplingGrid(input.height, input.width,
                                                deformation, x, y),
                             warpDirect_kernel(mode), warpDirect_align(mode)),
                round_down)
    IN [width |-> input.width, height |-> input.height,
        data |-> [k \in 1..(input.width * input.height) |->
                    sample((k - 1) % input.width, (k - 1) \div input.width)]]

\* input_tensor.index({Slice(), Slice(tile.y, tile.y + tile.height),
\*                     Slice(tile.x, tile.x + tile.width)})
tile_input(input, tile) ==
    LET sample(x, y) == at(input, tile.x + x, tile.y + y)
    IN [width |-> tile.width, height |-> tile.height,
        data |-> [k \in 1..(tile.width * tile.height) |->
                    sample((k - 1) % tile.width, (k - 1) \div tile.width)]]

\* The output rectangle the copy loop of warpImageTiled writes for a tile.
tileWrites(tile, x, y) ==
    /\ x >= tile.x /\ x < tile.x + tile.width
    /\ y >= tile.y /\ y < tile.y + tile.height

\* The tiles among the first processed ones that write output pixel (x, y).
writers(tiles, processed, x, y) ==
    {i \in 1..processed : tileWrites(tiles[i], x, y)}

\* warpImageTiled: the output after the first processed tiles of the plan.
\* Each tile is sampled with kernel 1 and align_corners = true on the grid
\* of its own slice of the field, and copied whole into the zeroed output; a
\* later tile overwrites an earlier one.
warpTiled_kernel == 1

warpTiled(input, deformation, tiles, processed) ==
    LET sample(x, y) ==
            LET ws == writers(tiles, processed, x, y)
            IN IF ws = {} THEN 0
               ELSE LET tile == tiles[SetMax(ws)]
                    IN tensorToImage(
                           grid_sampler(tile_input(input, tile),
                                        createSamplingGrid(tile.height,
                                            tile.width, deformation,
                                            x - tile.x, y - tile.y),
                                        warpTiled_kernel, TRUE),
                           0)
    IN [width |-> input.width, height |-> input.height,
        data |-> [k \in 1..(input.width * input.height) |->
                    sample((k - 1) % input.width, (k - 1) \div input.width)]]

(* ------------------------ CudaWarper: calls ---------------------------- *)

\* A design image: sample (x, y) = 10 * (y + 1) + x.
WarpSource(width, height) ==
    LET sample(x, y) == 10 * (y + 1) + x
    IN [width |-> width, height |-> height,
        data |-> [k \in 1..(width * height) |->
                    sample((k - 1) % width, (k - 1) \div width)]]

DesignImages == {WarpSource(w, h) : w \in 1..MaxImage, h \in 1..MaxImage}

\* DeformationField(w, h) with every displacement set to d.
UniformField(width, height, d) ==
    [width |-> width, height |-> height, dx |-> d[1], dy |-> d[2]]

\* The configurations given to CudaWarper::initialize: tiles of 1..MaxTile
\* by 1..MaxTile, and one with a tile width of 0.
GPUConfigs ==
    [tile_width : 1..MaxTile, tile_height : 1..MaxTile,
     tile_overlap : (-1)..MaxTileOverlap, max_vram_bytes : VramBudgets]
    \cup [tile_width : {0}, tile_height : {MaxTile}, tile_overlap : {-1},
          max_vram_bytes : VramBudgets]

\* What libtorch does during a call: nothing, or a c10::Error of the given
\* kind while tile number tile is processed (in the direct path: while the
\* image is).
Faults ==
    {[tile |-> 0, error |-> "none"]}
        \cup [tile : 1..MaxFaultTile, error : TorchErrors]

\* bytes > size for a byte count below one MiB
ExceedsSizeT(bytes, size) == size.mib = 0 /\ bytes > size.bytes

\* The first tile of the plan at which the tiled loop stops with a
\* c10::Error, 0 if there is none: the tile the fault hits, or an empty tile
\* (grid_sampler rejects an input without spatial extent).
failingTile(tiles, fault) ==
    LET bad == {i \in 1..Len(tiles) :
                   \/ tiles[i].width <= 0
                   \/ tiles[i].height <= 0
                   \/ fault.tile = i}
    IN IF bad = {} THEN 0 ELSE CHOOSE i \in bad : \A j \in bad : i <= j

\* warpImageTiled(input, deformation, output) when generateTiles returns:
\* the status, the output image and the record of the call.
warpImageTiled(config, input, deformation, fault) ==
    LET tiles     == generateTiles(config, input.width, input.height)
        failed    == failingTile(tiles, fault)
        processed == IF failed = 0 THEN Len(tiles) ELSE failed - 1
    IN [status |-> IF failed = 0 THEN "SUCCESS"
                   ELSE "ERROR_GPU_OUT_OF_MEMORY",
        output |-> warpTiled(input, deformation, tiles, processed),
        tiles |-> tiles, processed |-> processed,
        error |-> IF failed = 0 THEN "none"
                  ELSE IF fault.tile = failed THEN fault.error
                  ELSE "empty_input",
        kernels |-> IF processed > 0 THEN {warpTiled_kernel} ELSE {}]

\* No call is made on a warper whose last call has not returned.
Returned == warp_call.status # "NO_RETURN"

\* The warper is configured before its first warp call, as main() does.
Configuring ==
    warp_call.op \in {"CudaWarper", "initialize", "setInterpolationMode"}

\* CudaWarper::initialize(config).  usable: CUDA is available and
\* config.device_id names a device.
WarperInitialize(config, usable) ==
    /\ Configuring
    /\ config_' = config
    /\ warper_initialized_' = (warper_initialized_ \/ usable)
    /\ warp_call' = WarpCall("initialize",
                             IF usable THEN "SUCCESS"
                             ELSE "ERROR_INVALID_CONFIG")
    /\ output' = EmptyImage
    /\ UNCHANGED <<interpolation_mode_, design_image>>

\* setInterpolationMode(mode)
SetInterpolationMode(mode) ==
    /\ Configuring
    /\ interpolation_mode_' = mode
    /\ warp_call' = WarpCall("setInterpolationMode", "SUCCESS")
    /\ output' = EmptyImage
    /\ UNCHANGED <<config_, warper_initialized_, design_image>>

\* The tiled path, entered from warpImage or called directly (op).  The
\* caller passes an empty output image.
TiledPath(op, deformation, fault) ==
    IF generateTiles_returns(config_, design_image.width, design_image.height)
    THEN LET r == warpImageTiled(config_, design_image, deformation, fault)
         IN /\ fault.tile <= Len(generateTiles(config_, design_image.width,
                                               design_image.height))
            /\ output' = r.output
            /\ warp_call' = [op |-> op, status |-> r.status,
                             path |-> "tiled", field |-> deformation,
                             tiles |-> r.tiles, processed |-> r.processed,
                             error |-> r.error, kernels |-> r.kernels]
    ELSE /\ fault.tile = 0
         /\ output' = EmptyImage
         /\ warp_call' = [WarpCall(op, "NO_RETURN") EXCEPT
                             !.path = "tiled", !.field = deformation]

\* warpImageTiled(design_image, deformation, output)
WarpImageTiled(deformation, fault) ==
    /\ Returned
    /\ TiledPath("warpImageTiled", deformation, fault)
    /\ UNCHANGED <<config_, warper_initialized_, interpolation_mode_,
                   design_image>>

\* warpImage(design_image, deformation, output).  free_bytes is what
\* getMemoryInfo reports, round_down how binary32 rounded the weighted
\* means.
WarpImage(deformation, free_bytes, fault, round_down) ==
    /\ Returned
    /\ IF ~warper_initialized_
       THEN /\ fault.tile = 0 /\ round_down = 0
            /\ output' = EmptyImage
            /\ warp_call' = [WarpCall("warpImage", "ERROR_INVALID_CONFIG")
                                EXCEPT !.field = deformation]
       ELSE IF ExceedsSizeT(design_image.width * design_image.height
                                * SizeofFloat * TensorCopies, free_bytes)
       THEN round_down = 0 /\ TiledPath("warpImage", deformation, fault)
       ELSE /\ fault.tile <= 1
            /\ round_down = 1 =>
                   (fault.tile = 0 /\ interpolation_mode_ = "nearest")
            /\ output' = IF fault.tile = 0
                         THEN warpDirect(design_image, deformation,
                                         interpolation_mode_, round_down)
                         ELSE EmptyImage
            /\ warp_call' = [op |-> "warpImage",
                             status |-> IF fault.tile = 0 THEN "SUCCESS"
                                        ELSE "ERROR_GPU_OUT_OF_MEMORY",
                             path |-> "direct", field |-> deformation,
                             tiles |-> << >>, processed |-> 0,
                             error |-> fault.error,
                             kernels |-> IF fault.tile = 0
                                         THEN {warpDirect_kernel(
                                                   interpolation_mode_)}
                                         ELSE {}]
    /\ UNCHANGED <<config_, warper_initialized_, interpolation_mode_,
                   design_image>>

\* The warper alone: a design image is loaded, the stitcher is idle.
InitWarp ==
    /\ config_ = DefaultConfig
    /\ warper_initialized_ = FALSE
    /\ interpolation_mode_ = "bilinear"
    /\ design_image \in DesignImages
    /\ output = EmptyImage
    /\ warp_call = WarpCall("CudaWarper", "SUCCESS")
    /\ initialized_ = FALSE
    /\ params_ = [overlap_pixels |-> DefaultOverlap]
    /\ min_correlation_ = DefaultMinCorrelation
    /\ blending_enabled_ = TRUE
    /\ strips_ = << >>
    /\ stitched_image_ = EmptyImage
    /\ last_alignment_ = ZeroStats
    /\ current_height_ = 0
    /\ last_call = Call("StripStitcher", "SUCCESS", NoStrip, FALSE, FALSE)
    /\ PipeIdle

NextWarp ==
    \/ (\E c \in GPUConfigs, usable \in BOOLEAN : WarperInitialize(c, usable))
           /\ UNCHANGED <<vars, pvars>>
    \/ (\E m \in InterpolationModes : SetInterpolationMode(m))
           /\ UNCHANGED <<vars, pvars>>
    \/ (\E d \in Displacements, f \in Faults :
            WarpImageTiled(UniformField(design_image.width,
                                        design_image.height, d), f))
           /\ UNCHANGED <<vars, pvars>>
    \/ (\E d \in Displacements, fb \in FreeBytes, f \in Faults,
           rd \in {0, 1} :
            WarpImage(UniformField(design_image.width, design_image.height,
                                   d), fb, f, rd))
           /\ UNCHANGED <<vars, pvars>>

SpecWarp == InitWarp /\ [][NextWarp]_<<vars, wvars, pvars>>

(* ------------------------- pipeline: the camera ------------------------ *)

\* Mutant of push: the strip is put at the front of the queue.
push_front(queue, strip) == <<strip>> \o queue

\* std::queue<ScanStrip>: push, front, pop
push(queue, strip) == Append(queue, strip)
front(queue) == Head(queue)
pop(queue) == Tail(queue)

\* notify_one / notify_all on a condition variable with one possible
\* waiter: a thread blocked in wait goes on to reacquire the mutex; a thread
\* anywhere else does not notice.
notify(pc) == IF pc = "waiting" THEN "relock" ELSE pc

\* cv.wait(lock, pred) entered with the mutex held: where the thread goes
\* after evaluating pred = !queue.empty() || stop.
wait_pred(queue, stop) ==
    IF queue # << >> \/ stop THEN "check" ELSE "block"

\* A thread holds its queue mutex from the lock to the end of the block,
\* except while it is blocked in wait.
HoldsMutex(pc) == pc \in {"block", "check"}

\* The frame the grabber delivers as strip number id.
FrameStrip(id) == [strip_id |-> id, image |-> StripImage(1, 2, 13)]

\* processBuffer, up to the push: count the frame, build the strip, push it
\* under queue_mutex_.
GrabFrame ==
    /\ grabbing
    /\ grab_pc = "idle"
    /\ stats_.frames_received < MaxScanned
    /\ ~HoldsMutex(cam_pc)
    /\ stats_' = [frames_received |-> stats_.frames_received + 1]
    /\ current_strip_id_' = current_strip_id_ + 1
    /\ strip_queue_' = push(strip_queue_, FrameStrip(current_strip_id_))
    /\ grab_pc' = "notify"
    /\ UNCHANGED <<grabbing, is_acquiring_, should_stop_, cam_pc, cam_strip,
                   g_running, g_strip_queue, g_stats, proc_pc, proc_strip,
                   main_pc, printer, cycle, stitch_order>>

\* processBuffer, after the push: queue_cv_.notify_one() outside the lock.
GrabNotify ==
    /\ grab_pc = "notify"
    /\ cam_pc' = notify(cam_pc)
    /\ grab_pc' = "idle"
    /\ UNCHANGED <<current_strip_id_, stats_, grabbing, is_acquiring_,
                   should_stop_, strip_queue_, cam_strip, g_running,
                   g_strip_queue, g_stats, proc_pc, proc_strip, main_pc,
                   printer, cycle, stitch_order>>

\* GidelCamera::processingThread: while (!should_stop_)
CamLoop ==
    /\ cam_pc = "loop"
    /\ cam_pc' = IF should_stop_ THEN "done" ELSE "lock"
    /\ UNCHANGED <<current_strip_id_, stats_, grabbing, is_acquiring_,
                   should_stop_, strip_queue_, grab_pc, cam_strip, g_running,
                   g_strip_queue, g_stats, proc_pc, proc_strip, main_pc,
                   printer, cycle, stitch_order>>

\* ... lock queue_mutex_ (first, or again after a wake-up) and evaluate the
\* predicate of queue_cv_.wait
CamLock ==
    /\ cam_pc \in {"lock", "relock"}
    /\ cam_pc' = wait_pred(strip_queue_, should_stop_)
    /\ UNCHANGED <<current_strip_id_, stats_, grabbing, is_acquiring_,
                   should_stop_, strip_queue_, grab_pc, cam_strip, g_running,
                   g_strip_queue, g_stats, proc_pc, proc_strip, main_pc,
                   printer, cycle, stitch_order>>

\* ... the predicate was false: release the mutex and block
CamBlock ==
    /\ cam_pc = "block"
    /\ cam_pc' = "waiting"
    /\ UNCHANGED <<current_strip_id_, stats_, grabbing, is_acquiring_,
                   should_stop_, strip_queue_, grab_pc, cam_strip, g_running,
                   g_strip_queue, g_stats, proc_pc, proc_strip, main_pc,
                   printer, cycle, stitch_order>>

\* ... the predicate was true: leave the loop, or take the front strip
CamCheck ==
    /\ cam_pc = "check"
    /\ IF should_stop_ /\ strip_queue_ = << >>
       THEN cam_pc' = "done" /\ UNCHANGED <<strip_queue_, cam_strip>>
       ELSE /\ cam_pc' = "callback"
            /\ IF strip_queue_ # << >>
               THEN /\ cam_strip' = front(strip_queue_)
                    /\ strip_queue_' = pop(strip_queue_)
               ELSE UNCHANGED <<strip_queue_, cam_strip>>
    /\ UNCHANGED <<current_strip_id_, stats_, grabbing, is_acquiring_,
                   should_stop_, grab_pc, g_running, g_strip_queue, g_stats,
                   proc_pc, proc_strip, main_pc, printer, cycle,
                   stitch_order>>

\* ... image_callback_(strip), which is onCameraStrip: under g_queue_mutex
\* push the strip, count it, notify the consumer.
CamCallback ==
    /\ cam_pc = "callback"
    /\ ~HoldsMutex(proc_pc)
    /\ g_strip_queue' = push(g_strip_queue, cam_strip)
    /\ g_stats' = [g_stats EXCEPT !.strips_acquired = @ + 1]
    /\ proc_pc' = notify(proc_pc)
    /\ cam_pc' = "loop"
    /\ cam_strip' = DefaultStrip
    /\ UNCHANGED <<current_strip_id_, stats_, grabbing, is_acquiring_,
                   should_stop_, strip_queue_, grab_pc, g_running,
                   proc_strip, main_pc, printer, cycle, stitch_order>>

(* ------------------------ pipeline: the consumer ----------------------- *)

camera_vars == <<current_strip_id_, stats_, grabbing, is_acquiring_,
                 should_stop_, strip_queue_, grab_pc, cam_pc, cam_strip>>

\* const int REGISTRATION_INTERVAL = 10
REGISTRATION_INTERVAL == 10

\* What OpenCV estimates for a strip of the run.
PipeEstimates == [shift_x : {0}, shift_y : ShiftsY, max_val : MaxVals]

\* The fields registration returns and the faults of the warp in a run.
PipeDisplacements == {<<0, 0>>, <<0, 3>>}
PipeFaults == {f \in Faults : f.tile <= 1}

\* PrinterInterface::isReady()
isReady(p) == p.initialized_ /\ p.connected /\ ~p.printing

\* Mutant of ProcLoop: while (true), the loop is left only from the wait.
ProcLoop_forever ==
    /\ proc_pc = "loop"
    /\ proc_pc' = "lock"
    /\ proc_strip' = DefaultStrip
    /\ UNCHANGED <<camera_vars, g_running, g_strip_queue, g_stats, main_pc,
                   printer, cycle, stitch_order>>

\* processingThread: while (g_running)
ProcLoop ==
    /\ proc_pc = "loop"
    /\ proc_pc' = IF g_running THEN "lock" ELSE "done"
    /\ proc_strip' = DefaultStrip
    /\ UNCHANGED <<camera_vars, g_running, g_strip_queue, g_stats, main_pc,
                   printer, cycle, stitch_order>>

\* ... lock g_queue_mutex (first, or again after a wake-up) and evaluate the
\* predicate of g_queue_cv.wait
ProcLock ==
    /\ proc_pc \in {"lock", "relock"}
    /\ proc_pc' = wait_pred(g_strip_queue, ~g_running)
    /\ UNCHANGED <<camera_vars, g_running, g_strip_queue, g_stats,
                   proc_strip, main_pc, printer, cycle, stitch_order>>

\* ... the predicate was false: release the mutex and block
ProcBlock ==
    /\ proc_pc = "block"
    /\ proc_pc' = "waiting"
    /\ UNCHANGED <<camera_vars, g_running, g_strip_queue, g_stats,
                   proc_strip, main_pc, printer, cycle, stitch_order>>

\* ... the predicate was true: leave the loop, or take the front strip
ProcCheck ==
    /\ proc_pc = "check"
    /\ IF ~g_running /\ g_strip_queue = << >>
       THEN /\ proc_pc' = "done"
            /\ UNCHANGED <<g_strip_queue, proc_strip, cycle>>
       ELSE /\ proc_pc' = "stitch"
            /\ IF g_strip_queue # << >>
               THEN /\ proc_strip' = front(g_strip_queue)
                    /\ g_strip_queue' = pop(g_strip_queue)
                    /\ cycle' = [Cycle(front(g_strip_queue))
                                    EXCEPT !.dequeued = TRUE,
                                           !.after_stop =
                                               IF g_running THEN 0
                                               ELSE cycle.after_stop + 1]
               ELSE /\ cycle' = [Cycle(proc_strip)
                                    EXCEPT !.after_stop = cycle.after_stop]
                    /\ UNCHANGED <<g_strip_queue, proc_strip>>
    /\ UNCHANGED <<camera_vars, g_running, g_stats, main_pc, printer,
                   stitch_order>>

\* Where the loop body goes after addStrip returned status for strip
\* strip_id: back to the loop head (continue), to the registration, or to
\* the end of the body.
afterStitch_break(status, strip_id) ==
    IF status # "SUCCESS" THEN "done"
    ELSE IF strip_id % REGISTRATION_INTERVAL = 0 /\ strip_id > 0
    THEN "register" ELSE "end"

afterStitch(status, strip_id) ==
    IF status # "SUCCESS" THEN "loop"
    ELSE IF strip_id % REGISTRATION_INTERVAL = 0 /\ strip_id > 0
    THEN "register" ELSE "end"

\* Mutant of afterRegistration: the warp is reached whatever registration
\* reported.
afterRegistration_warp(ok) == "warp"

\* ... after registerImages: continue on failure, else warp
afterRegistration(ok) == IF ok THEN "warp" ELSE "loop"

\* Mutant of afterWarp: the printer is reached whatever warpImage returned.
afterWarp_print(status) ==
    IF status = "NO_RETURN" THEN "warp" ELSE "print"

\* ... after warpImage: the printer on success, else the end of the body
afterWarp(status) ==
    IF status = "NO_RETURN" THEN "warp"
    ELSE IF status = "SUCCESS" THEN "print" ELSE "end"

\* g_stats.strips_processed++ at the end of the body, which is where the
\* position "end" leads at once.
endOfBody(pc, stats) ==
    IF pc = "end"
    THEN [pc |-> "loop",
          stats |-> [stats EXCEPT !.strips_processed = @ + 1]]
    ELSE [pc |-> pc, stats |-> stats]

\* ... status = stitcher->addStrip(strip)
ProcStitch ==
    /\ proc_pc = "stitch"
    /\ \/ AddStripUninitialized(proc_strip)
       \/ AddStripSeed(proc_strip)
       \/ \E est \in PipeEstimates : AddStripAligned(proc_strip, est)
    /\ stitch_order' = Append(stitch_order, proc_strip.strip_id)
    /\ cycle' = [cycle EXCEPT !.stitch = last_call'.status]
    /\ LET next == endOfBody(afterStitch(last_call'.status,
                                         proc_strip.strip_id), g_stats)
       IN proc_pc' = next.pc /\ g_stats' = next.stats
    /\ UNCHANGED <<camera_vars, g_running, g_strip_queue, proc_strip,
                   main_pc, printer>>

\* The filters of ImageProcessor::applyPipeline, in the order it runs them.
Filters == <<"gaussian", "bilateral", "histogram_eq", "normalize">>

\* The PreprocessingConfig processingThread builds: it sets enable_gaussian
\* and enable_normalize; the struct has no initialisers, so enable_bilateral
\* and enable_histogram_eq are whatever the stack held.
prep_config(enable_bilateral, enable_histogram_eq) ==
    [gaussian |-> TRUE, bilateral |-> enable_bilateral,
     histogram_eq |-> enable_histogram_eq, normalize |-> TRUE]

PrepConfigs == {prep_config(b, h) : b \in BOOLEAN, h \in BOOLEAN}

\* The filter in which OpenCV throws, if any.
FilterFaults == {"none"} \cup {Filters[i] : i \in 1..Len(Filters)}

\* ImageProcessor::applyPipeline(input, output, config) on extents: every
\* filter that runs gives an image of the columns and rows of its input; a
\* filter that catches a cv::Exception returns ERROR_UNKNOWN, and
\* applyPipeline returns it without assigning output.
applyPipeline(input, output_, config, fault) ==
    IF fault # "none" /\ config[fault]
    THEN [status |-> "ERROR_UNKNOWN", output |-> output_]
    ELSE [status |-> "SUCCESS", output |-> input]

\* ... getStitchedImage, applyPipeline (its status is not read),
\* registerImages; ok: the status is SUCCESS and reg_result.success is set
ProcRegister(config, fault, ok) ==
    /\ proc_pc = "register"
    /\ fault # "none" => config[fault]
    /\ LET stitched == Extent(stitched_image_)
           preprocessed == applyPipeline(stitched, Extent(EmptyImage),
                                         config, fault).output
       IN cycle' = [cycle EXCEPT
                       !.registration = IF ok THEN "SUCCESS"
                                        ELSE "ERROR_REGISTRATION_FAILED",
                       !.stitched = stitched,
                       !.moving = preprocessed]
    /\ proc_pc' = afterRegistration(ok)
    /\ UNCHANGED <<camera_vars, g_running, g_strip_queue, g_stats,
                   proc_strip, main_pc, printer, stitch_order>>

\* ... status = warper->warpImage(design_image, reg_result.deformation,
\* warped)
ProcWarp(deformation, free_bytes, fault, round_down) ==
    /\ proc_pc = "warp"
    /\ WarpImage(deformation, free_bytes, fault, round_down)
    /\ cycle' = [cycle EXCEPT !.warp = warp_call'.status]
    /\ LET next == endOfBody(afterWarp(warp_call'.status), g_stats)
       IN proc_pc' = next.pc /\ g_stats' = next.stats
    /\ UNCHANGED <<camera_vars, g_running, g_strip_queue, proc_strip,
                   main_pc, printer, stitch_order>>

\* ... if (printer && printer->isReady()) printer->sendImage(warped)
ProcPrint ==
    /\ proc_pc = "print"
    /\ cycle' = [cycle EXCEPT !.ready = isReady(printer),
                              !.sent = isReady(printer),
                              !.image = IF isReady(printer) THEN output
                                        ELSE EmptyImage]
    /\ LET next == endOfBody("end", g_stats)
       IN proc_pc' = next.pc /\ g_stats' = next.stats
    /\ UNCHANGED <<camera_vars, g_running, g_strip_queue, proc_strip,
                   main_pc, printer, stitch_order>>

(* --------------------------- pipeline: main() -------------------------- *)

consumer_vars == <<g_strip_queue, g_stats, proc_strip, printer, cycle,
                   stitch_order>>

\* g_running = true; std::thread proc_thread(processingThread, ...)
MainStartThread ==
    /\ main_pc = "init"
    /\ g_running' = TRUE
    /\ proc_pc' = "loop"
    /\ main_pc' = "start_camera"
    /\ UNCHANGED <<camera_vars, consumer_vars>>

\* camera.startAcquisition(): reset the statistics, clear should_stop_,
\* start the camera's processing thread, then Grab(); grab_ok: the grabber
\* starts.
MainStartAcquisition(grab_ok) ==
    /\ main_pc = "start_camera"
    /\ ~is_acquiring_
    /\ stats_' = [frames_received |-> 0]
    /\ should_stop_' = FALSE
    /\ cam_pc' = "loop"
    /\ grabbing' = grab_ok
    /\ is_acquiring_' = grab_ok
    /\ main_pc' = IF grab_ok THEN "running" ELSE "start_failed"
    /\ UNCHANGED <<current_strip_id_, strip_queue_, grab_pc, cam_strip,
                   g_running, proc_pc, consumer_vars>>

\* startAcquisition failed: g_running = false, then proc_thread.join()
MainStartFailed ==
    /\ main_pc = "start_failed"
    /\ g_running' = FALSE
    /\ main_pc' = "join"
    /\ UNCHANGED <<camera_vars, proc_pc, consumer_vars>>

\* Enter was pressed.  camera.stopAcquisition(): stop the grabber and set
\* should_stop_
MainStopCamera ==
    /\ main_pc = "running"
    /\ is_acquiring_
    /\ grabbing' = FALSE
    /\ should_stop_' = TRUE
    /\ main_pc' = "camera_notify"
    /\ UNCHANGED <<current_strip_id_, stats_, is_acquiring_, strip_queue_,
                   grab_pc, cam_pc, cam_strip, g_running, proc_pc,
                   consumer_vars>>

\* ... queue_cv_.notify_all()
MainNotifyCamera ==
    /\ main_pc = "camera_notify"
    /\ cam_pc' = notify(cam_pc)
    /\ main_pc' = "camera_join"
    /\ UNCHANGED <<current_strip_id_, stats_, grabbing, is_acquiring_,
                   should_stop_, strip_queue_, grab_pc, cam_strip, g_running,
                   proc_pc, consumer_vars>>

\* ... processing_thread_.join() returns; is_acquiring_ = false
MainJoinCamera ==
    /\ main_pc = "camera_join"
    /\ cam_pc = "done"
    /\ is_acquiring_' = FALSE
    /\ main_pc' = "stop"
    /\ UNCHANGED <<current_strip_id_, stats_, grabbing, should_stop_,
                   strip_queue_, grab_pc, cam_pc, cam_strip, g_running,
                   proc_pc, consumer_vars>>

\* g_running = false
MainStop ==
    /\ main_pc = "stop"
    /\ g_running' = FALSE
    /\ main_pc' = "notify"
    /\ UNCHANGED <<camera_vars, proc_pc, consumer_vars>>

\* g_queue_cv.notify_all()
MainNotify ==
    /\ main_pc = "notify"
    /\ proc_pc' = notify(proc_pc)
    /\ main_pc' = "join"
    /\ UNCHANGED <<camera_vars, g_running, consumer_vars>>

\* proc_thread.join() returns
MainJoin ==
    /\ main_pc = "join"
    /\ proc_pc = "done"
    /\ main_pc' = "exit"
    /\ UNCHANGED <<camera_vars, g_running, proc_pc, consumer_vars>>

\* The strip id the camera gives the first strip of the run: 0 for a new
\* camera object, more for one that acquired before (startAcquisition does
\* not reset current_strip_id_).
FirstStripIds == {0, REGISTRATION_INTERVAL - 1}

\* PrinterInterface after a successful initialize
OpenPrinter ==
    [initialized_ |-> TRUE, connected |-> TRUE, printing |-> FALSE]

\* The pipeline when main() is about to start its threads: the stitcher is
\* initialized with an overlap of one row, the warper has the default tiles
\* and is initialized if a GPU is there, the printer is closed (as main()
\* leaves it) or open, the design image is loaded.
InitPipe ==
    /\ initialized_ = TRUE
    /\ params_ = [overlap_pixels |-> 1]
    /\ min_correlation_ = DefaultMinCorrelation
    /\ blending_enabled_ = TRUE
    /\ strips_ = << >>
    /\ stitched_image_ = EmptyImage
    /\ last_alignment_ \in {s \in IndeterminateStats :
                               s.offset_x = 0 /\ s.correlation = 60}
    /\ current_height_ = 0
    /\ last_call = Call("initialize", "SUCCESS", NoStrip, FALSE, FALSE)
    /\ config_ = DefaultConfig
    /\ warper_initialized_ \in BOOLEAN
    /\ interpolation_mode_ = "bilinear"
    /\ design_image = WarpSource(1, 2)
    /\ output = EmptyImage
    /\ warp_call = WarpCall("CudaWarper", "SUCCESS")
    /\ current_strip_id_ \in FirstStripIds
    /\ stats_ = [frames_received |-> 0]
    /\ grabbing = FALSE
    /\ is_acquiring_ = FALSE
    /\ should_stop_ = FALSE
    /\ strip_queue_ = << >>
    /\ grab_pc = "idle"
    /\ cam_pc = "unstarted"
    /\ cam_strip = DefaultStrip
    /\ g_running = FALSE
    /\ g_strip_queue = << >>
    /\ g_stats = [strips_acquired |-> 0, strips_processed |-> 0]
    /\ proc_pc = "unstarted"
    /\ proc_strip = DefaultStrip
    /\ main_pc = "init"
    /\ printer \in {ClosedPrinter, OpenPrinter}
    /\ cycle = Cycle(DefaultStrip)
    /\ stitch_order = << >>

\* The calls the consumer makes into the stitcher and the warper.
Stitch == ProcStitch /\ UNCHANGED wvars
Register ==
    (\E config \in PrepConfigs, fault \in FilterFaults, ok \in BOOLEAN :
         ProcRegister(config, fault, ok))
        /\ UNCHANGED <<vars, wvars>>
Warp ==
    (\E d \in PipeDisplacements, fb \in FreeBytes, f \in PipeFaults,
        rd \in {0, 1} :
         ProcWarp(UniformField(design_image.width, design_image.height, d),
                  fb, f, rd))
        /\ UNCHANGED vars

NextPipe ==
    \/ GrabFrame /\ UNCHANGED <<vars, wvars>>
    \/ GrabNotify /\ UNCHANGED <<vars, wvars>>
    \/ CamLoop /\ UNCHANGED <<vars, wvars>>
    \/ CamLock /\ UNCHANGED <<vars, wvars>>
    \/ CamBlock /\ UNCHANGED <<vars, wvars>>
    \/ CamCheck /\ UNCHANGED <<vars, wvars>>
    \/ CamCallback /\ UNCHANGED <<vars, wvars>>
    \/ ProcLoop /\ UNCHANGED <<vars, wvars>>
    \/ ProcLock /\ UNCHANGED <<vars, wvars>>
    \/ ProcBlock /\ UNCHANGED <<vars, wvars>>
    \/ ProcCheck /\ UNCHANGED <<vars, wvars>>
    \/ Stitch
    \/ Register
    \/ Warp
    \/ ProcPrint /\ UNCHANGED <<vars, wvars>>
    \/ MainStartThread /\ UNCHANGED <<vars, wvars>>
    \/ (\E grab_ok \in BOOLEAN : MainStartAcquisition(grab_ok))
           /\ UNCHANGED <<vars, wvars>>
    \/ MainStartFailed /\ UNCHANGED <<vars, wvars>>
    \/ MainStopCamera /\ UNCHANGED <<vars, wvars>>
    \/ MainNotifyCamera /\ UNCHANGED <<vars, wvars>>
    \/ MainJoinCamera /\ UNCHANGED <<vars, wvars>>
    \/ MainStop /\ UNCHANGED <<vars, wvars>>
    \/ MainNotify /\ UNCHANGED <<vars, wvars>>
    \/ MainJoin /\ UNCHANGED <<vars, wvars>>

SpecPipe == InitPipe /\ [][NextPipe]_<<vars, wvars, pvars>>

\* The steps of the threads: the grabber's pending notification, the
\* camera's processing thread, the consumer outside the warp call, and what
\* main() does without waiting for the operator.
GrabberThread == GrabNotify /\ UNCHANGED <<vars, wvars>>
CameraThread ==
    (CamLoop \/ CamLock \/ CamBlock \/ CamCheck \/ CamCallback)
        /\ UNCHANGED <<vars, wvars>>
ConsumerThread ==
    \/ (ProcLoop \/ ProcLock \/ ProcBlock \/ ProcCheck \/ ProcPrint)
           /\ UNCHANGED <<vars, wvars>>
    \/ Stitch
    \/ Register
MainThread ==
    (\/ MainStartThread
     \/ \E grab_ok \in BOOLEAN : MainStartAcquisition(grab_ok)
     \/ MainStartFailed
     \/ MainNotifyCamera
     \/ MainJoinCamera
     \/ MainStop
     \/ MainNotify
     \/ MainJoin) /\ UNCHANGED <<vars, wvars>>
ThreadStep == GrabberThread \/ CameraThread \/ ConsumerThread \/ MainThread

\* Fair scheduling: while some thread can take a step, one is taken, and a
\* warp call in flight returns.  The run produces finitely many strips and
\* every thread step moves its thread forward, so a behaviour is fair
\* exactly if it ends where no thread can step; this is the same as weak
\* fairness of each thread by itself.
SpecPipeFair ==
    /\ SpecPipe
    /\ WF_<<vars, wvars, pvars>>(ThreadStep)
    /\ []<>(proc_pc # "warp")

(* ------------------- StripStitcher: the bands correlated --------------- *)

\* mat(cv::Rect(0, y, mat.cols, rows)): rows y .. y + rows - 1 of an image
Rect(img, y, rows) ==
    [width |-> img.width, height |-> rows,
     data |-> SubSeq(img.data, y * img.width + 1, (y + rows) * img.width)]

\* overlap1 and overlap2 of phaseCorrelation(img1, img2): the last
\* overlap_height rows of img1 and the first overlap_height rows of img2.
overlap1(img1, img2, overlap_pixels) ==
    Rect(img1, img1.height - overlap_height(img1, img2, overlap_pixels),
         overlap_height(img1, img2, overlap_pixels))
overlap2(img1, img2, overlap_pixels) ==
    Rect(img2, 0, overlap_height(img1, img2, overlap_pixels))

\* The two images addStrip passes to alignStrips for a non-seed strip: the
\* image of strips_.back() and the image of the incoming strip.
alignStrips_img1 == strips_[Len(strips_)].image

(* ------------------------------ claims --------------------------------- *)

\* The strip a step has appended to strips_.
Accepted == strips_'[Len(strips_')]

\* A step that is a non-seed addStrip call returning SUCCESS.
FusedStep ==
    /\ last_call'.op = "addStrip"
    /\ last_call'.status = "SUCCESS"
    /\ strips_ # << >>

\* C1: an addStrip call on a stitcher that holds a composite, whose alignment
\* reports success = false, returns ERROR_STITCHING_FAILED and leaves the
\* composite, the strip history, the tracked height and everything else a
\* later addStrip reads exactly as they were.
C1_FailedAddStripIsNoOp ==
    [][(/\ last_call'.op = "addStrip"
        /\ initialized_
        /\ strips_ # << >>
        /\ ~last_alignment_'.success)
       => (/\ last_call'.status = "ERROR_STITCHING_FAILED"
           /\ stitched_image_' = stitched_image_
           /\ strips_' = strips_
           /\ current_height_' = current_height_
           /\ UNCHANGED <<initialized_, params_, min_correlation_,
                          blending_enabled_>>)]_vars

\* C1 witness: a failed addStrip after two accepted strips.
C1_Witness ==
    /\ last_call.op = "addStrip"
    /\ last_call.status = "ERROR_STITCHING_FAILED"
    /\ last_call.aligned
    /\ Len(strips_) >= 2

\* C2: addStrip on an initialized stitcher with no strips returns SUCCESS
\* without running the alignment, and the composite becomes the strip's
\* image, sample for sample, with the strip's height.
C2_SeedStripBecomesComposite ==
    [][(/\ last_call'.op = "addStrip"
        /\ initialized_
        /\ strips_ = << >>)
       => (/\ last_call'.status = "SUCCESS"
           /\ ~last_call'.aligned
           /\ last_alignment_' = last_alignment_
           /\ Len(strips_') = 1
           /\ strips_'[1] \in ScanStrips
           /\ strips_'[1].image.width = last_call'.strip_width
           /\ stitched_image_' = strips_'[1].image
           /\ stitched_image_'.height = strips_'[1].image.height
           /\ current_height_' = strips_'[1].image.height)]_vars

\* C2 witness: a seed strip of the greatest height has just been accepted.
C2_Witness ==
    /\ last_call.op = "addStrip"
    /\ last_call.status = "SUCCESS"
    /\ ~last_call.aligned
    /\ Len(strips_) = 1
    /\ stitched_image_.height = MaxHeight

\* C3 (as claimed): after every successful non-seed addStrip the height of
\* the image getStitchedImage returns is the height before the call plus the
\* strip's height minus overlap_pixels.
C3_HeightFormula ==
    [][FusedStep
       => stitched_image_'.height =
            stitched_image_.height + Accepted.image.height
                - params_.overlap_pixels]_vars

\* C4 (as claimed): whenever the composite is non-empty its height is at
\* least the height of the most recently accepted strip.
C4_HeightAtLeastLastStrip ==
    strips_ # << >> =>
        stitched_image_.height >= strips_[Len(strips_)].image.height

\* C5 (as claimed): a successful addStrip leaves unchanged every composite
\* row whose index is below (composite height before the call) -
\* overlap_pixels.
C5_AppendOnly ==
    [][FusedStep
       => \A k \in 1..Len(stitched_image_.data) :
            ((k - 1) \div stitched_image_.width
                 < stitched_image_.height - params_.overlap_pixels)
            => (/\ k <= Len(stitched_image_'.data)
                /\ stitched_image_'.data[k] = stitched_image_.data[k])]_vars

\* C6 (as claimed): with overlap_pixels = 0 every addStrip of a strip as
\* wide as the composite succeeds and appends the strip: the composite is
\* the old composite followed by the strip's rows.
C6_ZeroOverlapAppends ==
    [][(/\ last_call'.op = "addStrip"
        /\ initialized_
        /\ strips_ # << >>
        /\ params_.overlap_pixels = 0
        /\ last_call'.strip_width = stitched_image_.width)
       => (/\ last_call'.status = "SUCCESS"
           /\ stitched_image_'.height =
                stitched_image_.height + Accepted.image.height
           /\ stitched_image_'.data =
                stitched_image_.data \o Accepted.image.data)]_vars

\* C7 (as claimed): every sample blended in the overlap band (strip rows
\* 0 <= y < overlap_pixels) lies between the existing composite sample and
\* the incoming strip sample.
C7_BlendBetween ==
    [][(FusedStep /\ blending_enabled_ /\ params_.overlap_pixels > 0)
       => \A k \in 1..Len(stitched_image_.data) :
            LET x == ((k - 1) % stitched_image_.width)
                        - TruncToInt(last_alignment_'.offset_x)
                y == ((k - 1) \div stitched_image_.width)
                        - (current_height_ - params_.overlap_pixels)
            IN (/\ y >= 0 /\ y < params_.overlap_pixels
                /\ y < Accepted.image.height
                /\ x >= 0 /\ x < Accepted.image.width)
               => (/\ stitched_image_'.data[k]
                        >= Min(stitched_image_.data[k], at(Accepted.image, x, y))
                   /\ stitched_image_'.data[k]
                        <= Max(stitched_image_.data[k], at(Accepted.image, x, y)))]_vars

\* C8 (as claimed): the stitcher retains the raster of at most one strip.
C8_AtMostOneStripRetained ==
    Len(strips_) <= 1

\* C9: reset() leaves no composite (height 0, no samples), no strip history
\* and a tracked height of 0, and the addStrip that follows it is a seed:
\* accepted without alignment, the composite equal to that strip.
C9_ResetReturnsToEmpty ==
    [][/\ (last_call'.op = "reset")
            => (/\ strips_' = << >>
                /\ stitched_image_'.height = 0
                /\ stitched_image_'.data = << >>
                /\ current_height_' = 0)
       /\ (last_call.op = "reset" /\ last_call'.op = "addStrip" /\ initialized_)
            => (/\ last_call'.status = "SUCCESS"
                /\ ~last_call'.aligned
                /\ Len(strips_') = 1
                /\ stitched_image_' = strips_'[1].image)]_vars

\* C9 witness: reset() has just discarded a full run of strips.
C9_Witness ==
    /\ last_call.op = "reset"
    /\ last_call.dropped = MaxStrips
    /\ strips_ = << >>

\* C10: once a composite exists, no call other than reset() changes its
\* width, whatever the width of the strips passed to addStrip.
C10_WidthFixed ==
    [][(strips_ # << >> /\ last_call'.op # "reset")
       => stitched_image_'.width = stitched_image_.width]_vars

\* C10 witness: a strip of another width than the composite has been fused
\* and the composite has grown.
C10_Witness ==
    /\ last_call.op = "addStrip"
    /\ last_call.status = "SUCCESS"
    /\ Len(strips_) >= 2
    /\ last_call.strip_width # stitched_image_.width
    /\ stitched_image_.height > strips_[1].image.height

\* C11 (as claimed): after an addStrip call that returns SUCCESS
\* getLastAlignmentStats().success is true (the seed strip included), and
\* after one that returns ERROR_STITCHING_FAILED it is false.
C11_StatsFollowStatus ==
    last_call.op = "addStrip" =>
        /\ (last_call.status = "SUCCESS" => getLastAlignmentStats.success)
        /\ (last_call.status = "ERROR_STITCHING_FAILED"
                => ~getLastAlignmentStats.success)

\* C12 (as claimed): an alignment whose correlation cannot be computed (the
\* band handed to OpenCV is empty, the cv::Exception branch; strips have at
\* least one row, so that is overlap_pixels <= 0) reports success = false
\* and a correlation of 0.
C12_FailedEstimateIsZeroed ==
    [][(/\ last_call'.op = "addStrip"
        /\ last_call'.aligned
        /\ params_.overlap_pixels <= 0)
       => (/\ ~last_alignment_'.success
           /\ last_alignment_'.correlation = 0)]_vars

\* The pixels of the design image, as <<x, y>>.
Pixels == (0..(design_image.width - 1)) \X (0..(design_image.height - 1))

\* The last call took the tiled path and generateTiles returned a plan.
Planned == warp_call.path = "tiled" /\ warp_call.status # "NO_RETURN"

\* C13 (as claimed): with tile_width and tile_height greater than
\* tile_overlap, every pixel of the image lies in at least one tile of the
\* plan, and a tiled warp that returns SUCCESS has written every pixel of
\* the output image.
C13_NoGaps ==
    (/\ Planned
     /\ config_.tile_width > config_.tile_overlap
     /\ config_.tile_height > config_.tile_overlap)
    => /\ \A p \in Pixels :
            \E i \in 1..Len(warp_call.tiles) :
                tileWrites(warp_call.tiles[i], p[1], p[2])
       /\ warp_call.status = "SUCCESS"
            => \A p \in Pixels :
                  writers(warp_call.tiles, warp_call.processed,
                          p[1], p[2]) # {}

\* C14 (as claimed): the tiles' write regions are disjoint: in every tiled
\* warp, whatever tile_overlap is, no output pixel is written by two tiles.
C14_DisjointWrites ==
    Planned =>
        \A p \in Pixels :
            Cardinality(writers(warp_call.tiles, warp_call.processed,
                                p[1], p[2])) <= 1

\* The bytes a tile needs on the device: its samples (overlap included) as
\* floats, for the input, the output and the grid.
tileFootprint(tile) == tile.width * tile.height * SizeofFloat * TensorCopies

\* C15 (as claimed): the footprint of every planned tile is at most the
\* configured memory budget max_vram_bytes (and so at most the budget
\* divided by any safety factor of 1 or more).
C15_TilesFitBudget ==
    Planned =>
        \A i \in 1..Len(warp_call.tiles) :
            ~ExceedsSizeT(tileFootprint(warp_call.tiles[i]),
                          config_.max_vram_bytes)

\* C16 (as claimed): when the image is no wider than tile_width and no
\* higher than tile_height, the plan is exactly one tile, at (0, 0) and of
\* the size of the image, whatever tile_overlap is.
C16_SingleTileWhenImageFits ==
    (/\ Planned
     /\ design_image.width <= config_.tile_width
     /\ design_image.height <= config_.tile_height)
    => /\ Len(warp_call.tiles) = 1
       /\ warp_call.tiles[1].x = 0
       /\ warp_call.tiles[1].y = 0
       /\ warp_call.tiles[1].width = design_image.width
       /\ warp_call.tiles[1].height = design_image.height

\* C17: the plan is in row-major order: of two consecutive tiles the
\* second is further right in the same row of tiles, or starts the next row
\* at x = 0 with a greater y; and the tiles processed are the first ones of
\* the plan, in that order.
C17_RowMajorOrder ==
    Planned =>
        /\ \A i \in 1..(Len(warp_call.tiles) - 1) :
              LET a == warp_call.tiles[i]
                  b == warp_call.tiles[i + 1]
              IN \/ b.y = a.y /\ b.x > a.x
                 \/ b.y > a.y /\ b.x = 0
        /\ Len(warp_call.tiles) > 0 =>
              warp_call.tiles[1].x = 0 /\ warp_call.tiles[1].y = 0
        /\ warp_call.processed <= Len(warp_call.tiles)

\* C17 witness: a tiled warp has processed a plan of at least two rows of
\* at least two tiles each.
C17_Witness ==
    /\ Planned
    /\ warp_call.status = "SUCCESS"
    /\ Len(warp_call.tiles) >= 4
    /\ warp_call.processed = Len(warp_call.tiles)
    /\ warp_call.tiles[2].y = warp_call.tiles[1].y
    /\ warp_call.tiles[Len(warp_call.tiles)].y > 0
    /\ warp_call.tiles[Len(warp_call.tiles)].x > 0

\* The last call is a warp that returned SUCCESS with an all-zero field.
ZeroFieldWarp ==
    /\ warp_call.op \in {"warpImage", "warpImageTiled"}
    /\ warp_call.status = "SUCCESS"
    /\ warp_call.field.dx = 0
    /\ warp_call.field.dy = 0

\* The output pixels the last warp wrote: all of them on the direct path,
\* those inside a processed tile on the tiled path.
WrittenPixels ==
    {p \in Pixels :
        \/ warp_call.path = "direct"
        \/ writers(warp_call.tiles, warp_call.processed, p[1], p[2]) # {}}

\* C18 (as claimed): a warp with an all-zero displacement field returns the
\* source: every output pixel (x, y) it writes is source pixel (x, y),
\* exactly in mode "nearest" and to within one grey level in any other
\* mode, on the direct and on the tiled path.
C18_ZeroFieldIsIdentity ==
    ZeroFieldWarp =>
        /\ output.width = design_image.width
        /\ output.height = design_image.height
        /\ \A p \in WrittenPixels :
              LET got  == at(output, p[1], p[2])
                  want == at(design_image, p[1], p[2])
              IN IF interpolation_mode_ = "nearest"
                 THEN got = want
                 ELSE got - want \in {-1, 0, 1}

\* C19 (as claimed): the output of a tiled warp that returns SUCCESS is
\* the output of the non-tiled warp of the same image and field, at every
\* pixel the tiled warp writes.  The non-tiled warp is taken in mode
\* "bilinear", whose kernel and align_corners flag are those of the tiled
\* path, so that the two differ by the tiling alone.
C19_TiledEqualsDirect ==
    (Planned /\ warp_call.status = "SUCCESS")
    => LET direct == warpDirect(design_image, warp_call.field, "bilinear", 0)
       IN /\ output.width = direct.width
          /\ output.height = direct.height
          /\ \A p \in WrittenPixels :
                at(output, p[1], p[2]) = at(direct, p[1], p[2])

\* C20 (as claimed): a warp call ended by the device running out of memory
\* returns ERROR_GPU_OUT_OF_MEMORY with the tile it hit and the tiles after
\* it left unprocessed, and ERROR_GPU_OUT_OF_MEMORY is returned for no
\* other cause.
C20_OutOfMemoryIsDistinct ==
    warp_call.op \in {"warpImage", "warpImageTiled"} =>
        /\ warp_call.error = "out_of_memory"
              => /\ warp_call.status = "ERROR_GPU_OUT_OF_MEMORY"
                 /\ warp_call.path = "tiled"
                       => warp_call.processed < Len(warp_call.tiles)
        /\ warp_call.status = "ERROR_GPU_OUT_OF_MEMORY"
              => warp_call.error = "out_of_memory"

\* A configuration the two initialize calls are to reject.
InvalidStitcherConfig == params_.overlap_pixels < 0
InvalidWarperConfig ==
    \/ config_.tile_width <= 0
    \/ config_.tile_height <= 0
    \/ config_.tile_overlap < 0

\* C21: initialization rejects an invalid configuration.  After
\* StripStitcher::initialize with a negative overlap_pixels, and after
\* CudaWarper::initialize with a tile size of 0 or a negative tile_overlap,
\* the call has returned ERROR_INVALID_CONFIG and the component is not
\* initialized.
C21_InvalidConfigIsRejected ==
    /\ (last_call.op = "initialize" /\ InvalidStitcherConfig)
          => /\ last_call.status = "ERROR_INVALID_CONFIG"
             /\ ~initialized_
    /\ (warp_call.op = "initialize" /\ InvalidWarperConfig)
          => /\ warp_call.status = "ERROR_INVALID_CONFIG"
             /\ ~warper_initialized_

\* The id the grabber gave the k-th strip of the run (k = 1, 2, ...).
ProducedId(k) == current_strip_id_ - stats_.frames_received + (k - 1)

\* C22: strips reach the stitcher in the order the acquisition source
\* produced them.  The k-th call of addStrip is made with the k-th strip the
\* grabber delivered, whatever the threads' interleaving: the strips passed
\* to addStrip are a prefix of the produced ones, in the same order.
C22_FifoOrder ==
    /\ Len(stitch_order) <= stats_.frames_received
    /\ \A k \in 1..Len(stitch_order) : stitch_order[k] = ProducedId(k)

\* All strips of a run were stitched, one of them having waited in the
\* camera's queue behind another, and one in the pipeline's queue.
C22_Witness ==
    /\ Len(stitch_order) = MaxScanned
    /\ main_pc = "exit"

\* A capacity the strips of one run can exceed: neither queue has one in the
\* code, so for the claim any fixed number will do.
QueueCapacity == MaxScanned - 1

\* C23: the strip queues between producer and consumer are bounded.  In
\* every reachable state the camera's queue and the pipeline's queue each
\* hold at most QueueCapacity strips, however far the producer runs ahead
\* of the consumer.
C23_QueueBounded ==
    /\ Len(strip_queue_) <= QueueCapacity
    /\ Len(g_strip_queue) <= QueueCapacity

\* main() has set g_running = false and called g_queue_cv.notify_all().
StopRequested == main_pc = "join" /\ should_stop_

\* C24: cancellation terminates the consumer.  Once the stop flag is set
\* and the condition variable notified, the processing thread leaves its
\* loop (so that proc_thread.join() returns), under fair scheduling and in
\* every interleaving of the stop request with the consumer's queue wait.
C24_StopTerminatesConsumer == StopRequested ~> (proc_pc = "done")

\* C25: a per-strip or per-cycle failure never terminates the pipeline.
\* When addStrip, the registration or the warp of a cycle fails, the
\* consumer goes back to the head of its loop, and it leaves the loop only
\* when the stop flag is set.
C25_FailureContinues ==
    [][/\ proc_pc' # proc_pc =>
            /\ (proc_pc = "stitch" /\ cycle'.stitch # "SUCCESS")
                  => proc_pc' = "loop"
            /\ (proc_pc = "register" /\ cycle'.registration # "SUCCESS")
                  => proc_pc' = "loop"
            /\ (proc_pc = "warp" /\ cycle'.warp # "SUCCESS")
                  => proc_pc' = "loop"
            /\ proc_pc' = "done" => ~g_running
      ]_<<vars, wvars, pvars>>

\* After an addStrip that returned ERROR_STITCHING_FAILED the consumer has
\* dequeued the next strip and is about to stitch it.
C25_Witness ==
    /\ proc_pc = "stitch"
    /\ cycle.dequeued
    /\ last_call.op = "addStrip"
    /\ last_call.status = "ERROR_STITCHING_FAILED"

\* C26: sendImage is called only on a ready printer and only with the image
\* of a successful warp of the same cycle.  Whenever the consumer's cycle
\* has called sendImage, isReady() had answered true in that cycle, the
\* printer is initialized, connected and not printing, the cycle's
\* registration and warp returned SUCCESS, and the image sent is the
\* output of that warp.
C26_SendOnlyWhenReady ==
    cycle.sent =>
        /\ cycle.ready
        /\ printer.initialized_ /\ printer.connected /\ ~printer.printing
        /\ cycle.registration = "SUCCESS"
        /\ cycle.warp = "SUCCESS"
        /\ warp_call.status = "SUCCESS"
        /\ cycle.image = output

\* A cycle has sent a warped image to the printer.
C26_Witness ==
    /\ cycle.sent
    /\ cycle.image.width > 0
    /\ cycle.strip_id = REGISTRATION_INTERVAL

\* The composite a fusing step blends into: the old one, grown to the new
\* height.
Existing ==
    expandStitched(stitched_image_,
                   current_height_ + Accepted.image.height
                       - params_.overlap_pixels)

\* C27: in blended fusion the sample written for strip row y below
\* overlap_pixels is alpha * incoming + (1 - alpha) * existing with alpha =
\* y / overlap_pixels, rounded to an integer (down, up or to nearest: less
\* than one away from the exact value, so that row 0 keeps the existing
\* sample), and a strip row at or beyond overlap_pixels overwrites the
\* composite with the incoming sample.
C27_BlendFormula ==
    [][(FusedStep /\ blending_enabled_ /\ params_.overlap_pixels > 0)
       => \A k \in 1..Len(stitched_image_'.data) :
            LET n == params_.overlap_pixels
                x == ((k - 1) % stitched_image_.width)
                        - TruncToInt(last_alignment_'.offset_x)
                y == ((k - 1) \div stitched_image_.width)
                        - (current_height_ - n)
                incoming == at(Accepted.image, x, y)
                exact_n  == y * incoming + (n - y) * Existing.data[k]
                written  == stitched_image_'.data[k]
            IN (/\ y >= 0 /\ y < Accepted.image.height
                /\ x >= 0 /\ x < Accepted.image.width)
               => IF y >= n THEN written = incoming
                  ELSE /\ n * written - exact_n < n
                       /\ exact_n - n * written < n]_vars

\* C28: for every non-seed addStrip the reference band given to the
\* estimator is the trailing n rows of the current composite and the
\* candidate band the leading n rows of the incoming strip, n being
\* overlap_pixels clipped to the smaller of the two heights.  Stated for
\* every strip that can come next, in every state with a composite.
C28_BandsFromCompositeAndStrip ==
    (initialized_ /\ strips_ # << >> /\ params_.overlap_pixels > 0) =>
        \A strip \in ScanStrips :
            LET n == Min(params_.overlap_pixels,
                         Min(stitched_image_.height, strip.image.height))
                reference == overlap1(alignStrips_img1, strip.image,
                                      params_.overlap_pixels)
                candidate == overlap2(alignStrips_img1, strip.image,
                                      params_.overlap_pixels)
            IN /\ reference = Rect(stitched_image_,
                                   stitched_image_.height - n, n)
               /\ candidate = Rect(strip.image, 0, n)

\* C29: every pixel write of a successful addStrip lands inside the
\* composite buffer, with blending enabled or disabled, for every strip
\* width, strip height and estimated offset.
C29_WritesInsideComposite ==
    (last_call.op = "addStrip" /\ last_call.status = "SUCCESS") =>
        ~last_call.overrun

\* The number ATen gives the kernel of an interpolation mode:
\* GridSamplerInterpolation {Bilinear = 0, Nearest = 1}.
GridSamplerInterpolation(mode) == IF mode = "nearest" THEN 1 ELSE 0

\* C30: every resampling of a warp call, on the direct path and for every
\* tile of the tiled path, uses the kernel of the mode set by
\* setInterpolationMode.
C30_ConfiguredModeIsUsed ==
    warp_call.op \in {"warpImage", "warpImageTiled"} =>
        \A kernel \in warp_call.kernels :
            kernel = GridSamplerInterpolation(interpolation_mode_)

\* C31: when a tiled warp fails while processing a tile, the caller's output
\* image holds no partially written result: it is as it was before the call
\* (empty) or holds the result of no tile.
C31_NoPartialOutput ==
    (warp_call.path = "tiled"
       /\ warp_call.status \notin {"SUCCESS", "NO_RETURN"}) =>
        \/ output = EmptyImage
        \/ warp_call.processed = 0

\* The consumer is between two passes of its loop body.
BetweenStrips ==
    proc_pc \in {"loop", "lock", "relock", "block", "waiting", "check",
                 "done"}

\* if (strip.strip_id % REGISTRATION_INTERVAL == 0 && strip.strip_id > 0)
RegistrationDue(strip_id) ==
    strip_id % REGISTRATION_INTERVAL = 0 /\ strip_id > 0

\* C32: registration is requested (once) in the pass of every dequeued
\* strip whose id is a positive multiple of REGISTRATION_INTERVAL, and in
\* the pass of no other strip.
C32_RegistrationEveryInterval ==
    (BetweenStrips /\ cycle.dequeued) =>
        ((cycle.registration # "none") <=> RegistrationDue(cycle.strip_id))

\* C33: in a pass whose registration reports failure the warper and the
\* printer are not invoked (no warp status, nothing sent, the warper's and
\* the stitcher's state as they were) and the consumer goes back to the
\* head of its loop, from where the next strips are stitched as before.
C33_RegistrationFailureSkipsWarp ==
    [][/\ (proc_pc = "register"
             /\ cycle'.registration = "ERROR_REGISTRATION_FAILED") =>
            /\ proc_pc' = "loop"
            /\ UNCHANGED <<vars, wvars, printer, g_strip_queue>>
       /\ cycle'.registration = "ERROR_REGISTRATION_FAILED" =>
            /\ cycle'.warp = "none"
            /\ ~cycle'.ready /\ ~cycle'.sent
            /\ cycle'.image = EmptyImage]_<<vars, wvars, pvars>>

\* The three strips 9, 10 and 11 were all stitched into the composite and
\* the warper was never called: the registration in the pass of strip 10
\* failed, and strip 11 was fused after it.
C33_Witness ==
    /\ BetweenStrips
    /\ stitch_order = <<REGISTRATION_INTERVAL - 1, REGISTRATION_INTERVAL,
                        REGISTRATION_INTERVAL + 1>>
    /\ Len(strips_) = 3
    /\ current_height_ > strips_[1].image.height
    /\ cycle.strip_id = REGISTRATION_INTERVAL + 1
    /\ cycle.stitch = "SUCCESS"
    /\ warp_call.op = "CudaWarper"

\* C34: the moving image handed to registerImages has the width and height
\* of the composite pulled in the same pass, also when a preprocessing
\* filter reported an error.
C34_MovingImageHasCompositeExtent ==
    cycle.registration # "none" => cycle.moving = cycle.stitched

\* A step of the consumer thread alone: no other thread moves.
ConsumerStep ==
    /\ proc_pc' # proc_pc
    /\ UNCHANGED <<grab_pc, cam_pc, main_pc>>

\* C35: the run statistics are written only by the consumer thread, and
\* every write is made while the writer holds the lock that guards them
\* (the program has one mutex beside the camera's, g_queue_mutex).
C35_StatsWrittenByConsumerUnderLock ==
    [][g_stats' # g_stats => (ConsumerStep /\ HoldsMutex(proc_pc))]_<<vars, wvars, pvars>>

\* C36: generateTiles terminates with a finite tile list for every image
\* size and every tile configuration: no call that plans tiles fails to
\* return.
C36_GenerateTilesTerminates ==
    warp_call.path = "tiled" =>
        /\ generateTiles_returns(config_, design_image.width,
                                 design_image.height)
        /\ warp_call.status # "NO_RETURN"

\* C37: on a warper that is not initialized, warpImage and warpImageTiled
\* each return ERROR_INVALID_CONFIG and leave the output image untouched.
C37_UninitializedWarperRefuses ==
    (~warper_initialized_
       /\ warp_call.op \in {"warpImage", "warpImageTiled"}) =>
        /\ warp_call.status = "ERROR_INVALID_CONFIG"
        /\ output = EmptyImage

\* stopAcquisition has been entered and has not returned.  (startAcquisition
\* is one step of the main thread.)
CameraCallInProgress == main_pc \in {"camera_notify", "camera_join"}

\* C38: whenever isAcquiring() is false and no start or stop call is in
\* progress, the camera's processing thread is not running: it was never
\* started, or it has ended and was joined.
C38_IdleCameraHasNoThread ==
    (~is_acquiring_ /\ ~CameraCallInProgress) =>
        cam_pc \in {"unstarted", "done"}

\* stopAcquisition on an acquiring camera has set should_stop_ and is about
\* to notify queue_cv_.
StopAcquisitionEntered == main_pc = "camera_notify"

\* C39: stopAcquisition on an acquiring camera always returns: once it has
\* set should_stop_, the camera's processing thread ends and the join
\* completes, under fair scheduling.
C39_StopAcquisitionReturns ==
    StopAcquisitionEntered ~> (cam_pc = "done" /\ main_pc = "stop")

\* The strips the consumer has taken from g_strip_queue: those it passed
\* to addStrip and the one it holds before that call.
Dequeued == Len(stitch_order) + (IF proc_pc = "stitch" THEN 1 ELSE 0)

\* C40: after g_running is cleared the consumer dequeues at most one more
\* strip before it exits; every strip counted as acquired is either still
\* queued or was dequeued, only dequeued strips are passed to addStrip or
\* counted as processed, and strips_processed <= strips_acquired.
C40_AtMostOneStripAfterStop ==
    /\ cycle.after_stop <= 1
    /\ g_stats.strips_acquired = Dequeued + Len(g_strip_queue)
    /\ g_stats.strips_processed <= Len(stitch_order)
    /\ g_stats.strips_processed <= g_stats.strips_acquired

\* The consumer has exited after it dequeued one strip with the stop flag
\* set, and a strip is left in the queue, not stitched and not counted.
C40_Witness ==
    /\ proc_pc = "done"
    /\ ~g_running
    /\ cycle.after_stop = 1
    /\ g_strip_queue # << >>
    /\ g_stats.strips_processed < g_stats.strips_acquired

=============================================================================
